---- MODULE Spec2Model ----
(***************************************************************************)
(* TTL table-properties collector of db/table_properties_collector.cc:     *)
(* the per-file collector (InternalAdd / AddTtlToSliceWindow / Finish),    *)
(* the property accessors, the user-key adapter and the collector factory, *)
(* and CopyFile of util/file_util.cc.                                      *)
(*                                                                         *)
(* Unsigned 64-bit quantities are kept in an unsigned word that is 31 bits *)
(* wide, the widest TLC's integers allow: kMaxUint64 is the top of that    *)
(* word and AddU64 wraps at it.  The TTL ceiling keeps its real value.     *)
(***************************************************************************)
EXTENDS Integers, Sequences, FiniteSets, TLC

-----------------------------------------------------------------------------
(* Bounds of the model *)

\* largest ttl_max_scan_cap a collector is built with
MaxScanCap == 2
\* longest entry stream of one file build
MaxEntries == 4
\* most calls the user-key adapter hands to the collector it wraps
MaxAdapterCalls == 3
\* longest entry stream of a file build that runs beside another
MaxFactoryEntries == 2

-----------------------------------------------------------------------------
(* Program constants *)

kFiftyYearSecondsNumber == 1576800000
kMaxUint64 == 2147483647
\* sizeof(buffer) in CopyFile
kBufferSize == 4096

Min(a, b) == IF a < b THEN a ELSE b

\* uint64_t addition: wraps at the top of the word
AddU64(a, b) == IF a > kMaxUint64 - b THEN a - (kMaxUint64 - b) - 1 ELSE a + b

-----------------------------------------------------------------------------
(* Entry kinds *)

kEntryPut == 0
kEntryDelete == 1
kEntrySingleDelete == 2
kEntryMerge == 3
kEntryRangeDeletion == 4
kEntryValueIndex == 5
kEntryMergeIndex == 6
kEntryOther == 7

EntryTypes == kEntryPut .. kEntryOther

\* the condition of InternalAdd's first branch
IsDataBearing(entry_type) ==
    \/ entry_type = kEntryMerge
    \/ entry_type = kEntryPut
    \/ entry_type = kEntryMergeIndex
    \/ entry_type = kEntryValueIndex

\* the condition of InternalAdd's second branch, reached when the first fails
IsTombstoneLike(entry_type) == ~IsDataBearing(entry_type) /\ entry_type < kEntryOther

-----------------------------------------------------------------------------
(* The sliding window: ttl_seconds_slice_window_ (a vector, 0-based),      *)
(* slice_window_ttl_index_ (a deque of positions), slice_index_ and        *)
(* min_scan_cap_ttl_seconds_, gathered in a record                         *)
(*   [window, index, slice_index, min_scan_cap].                           *)

\* vector element i (0-based)
At(vec, i) == vec[i + 1]

Last(dq) == dq[Len(dq)]
PopBack(dq) == SubSeq(dq, 1, Len(dq) - 1)
PopFront(dq) == Tail(dq)

\* variant: a position whose sample equals the new one is kept
RECURSIVE PopDominatedFillingStrict(_, _, _)
PopDominatedFillingStrict(dq, window, ttl) ==
    IF dq /= <<>> /\ ttl > At(window, Last(dq))
    THEN PopDominatedFillingStrict(PopBack(dq), window, ttl)
    ELSE dq

\* while (!index.empty() && ttl >= window[index.back()]) index.pop_back();
RECURSIVE PopDominatedFilling(_, _, _)
PopDominatedFilling(dq, window, ttl) ==
    IF dq /= <<>> /\ ttl >= At(window, Last(dq))
    THEN PopDominatedFilling(PopBack(dq), window, ttl)
    ELSE dq

\* variant: a position leaves the deque one push late
RECURSIVE PopExpiredLate(_, _, _)
PopExpiredLate(dq, slice_index, cap) ==
    IF dq /= <<>> /\ Head(dq) < slice_index - cap
    THEN PopExpiredLate(PopFront(dq), slice_index, cap)
    ELSE dq

\* while (!index.empty() && index.front() <= slice_index_ - cap) index.pop_front();
RECURSIVE PopExpired(_, _, _)
PopExpired(dq, slice_index, cap) ==
    IF dq /= <<>> /\ Head(dq) <= slice_index - cap
    THEN PopExpired(PopFront(dq), slice_index, cap)
    ELSE dq

\* while (!index.empty() && ttl >= window[index.back() % cap]) index.pop_back();
RECURSIVE PopDominatedFull(_, _, _, _)
PopDominatedFull(dq, window, ttl, cap) ==
    IF dq /= <<>> /\ ttl >= At(window, Last(dq) % cap)
    THEN PopDominatedFull(PopBack(dq), window, ttl, cap)
    ELSE dq

\* variant: reads the sample at the deque's back instead of its front
UpdateMinScanCapFromBack(min_scan_cap, window, dq, slice_index, cap) ==
    IF slice_index >= cap
    THEN Min(min_scan_cap, At(window, Last(dq) % cap))
    ELSE min_scan_cap

\* variant: the update is made while the buffer is still filling
UpdateMinScanCapUnguarded(min_scan_cap, window, dq, slice_index, cap) ==
    Min(min_scan_cap, At(window, Head(dq) % cap))

\* the update of min_scan_cap_ttl_seconds_ that ends a push
UpdateMinScanCap(min_scan_cap, window, dq, slice_index, cap) ==
    IF slice_index >= cap
    THEN Min(min_scan_cap, At(window, Head(dq) % cap))
    ELSE min_scan_cap

AddTtlToSliceWindow(w, ttl, cap) ==
    IF cap > 0
    THEN LET filling == w.slice_index < cap
             dq1 == IF filling
                    THEN PopDominatedFilling(w.index, w.window, ttl)
                    ELSE PopDominatedFull(PopExpired(w.index, w.slice_index, cap),
                                          w.window, ttl, cap)
             win1 == IF filling
                     THEN Append(w.window, ttl)
                     ELSE [w.window EXCEPT ![(w.slice_index % cap) + 1] = ttl]
             dq2 == Append(dq1, w.slice_index)
             idx2 == w.slice_index + 1
         IN  [window |-> win1, index |-> dq2, slice_index |-> idx2,
              min_scan_cap |-> UpdateMinScanCap(w.min_scan_cap, win1, dq2, idx2, cap)]
    ELSE w

\* variant: the running minimum is put back to the sentinel as well
ClearSliceWindowAndMinimum(w) ==
    [window |-> <<>>, index |-> <<>>, slice_index |-> 0,
     min_scan_cap |-> kMaxUint64]

\* variant: the buffer is not cleared
ClearSliceWindowKeepingBuffer(w) ==
    [w EXCEPT !.index = <<>>, !.slice_index = 0]

\* the else branch of has_ttl: the three clears
ClearSliceWindow(w) ==
    [window |-> <<>>, index |-> <<>>, slice_index |-> 0,
     min_scan_cap |-> w.min_scan_cap]

-----------------------------------------------------------------------------
(* Varint64 coding of a property value (util/coding.h): 7 bits per byte,   *)
(* least significant group first, the top bit set on every byte but the    *)
(* last.                                                                   *)

RECURSIVE EncodeVarint64(_)
EncodeVarint64(v) ==
    IF v >= 128
    THEN <<(v % 128) + 128>> \o EncodeVarint64(v \div 128)
    ELSE <<v>>

\* PutVarint64(&dst, v): appends the coding of v to dst
PutVarint64(dst, v) == dst \o EncodeVarint64(v)

Pow2(n) == 2 ^ n

\* GetVarint64Ptr: the loop over the bytes, with the shift of the next group
RECURSIVE GetVarint64Ptr(_, _, _, _)
GetVarint64Ptr(raw, p, shift, result) ==
    IF shift <= 63 /\ p <= Len(raw)
    THEN IF raw[p] >= 128
         THEN GetVarint64Ptr(raw, p + 1, shift + 7,
                             result + (raw[p] - 128) * Pow2(shift))
         ELSE [ok |-> TRUE, val |-> result + raw[p] * Pow2(shift)]
    ELSE [ok |-> FALSE, val |-> 0]

GetVarint64(raw) == GetVarint64Ptr(raw, 1, 0, 0)

-----------------------------------------------------------------------------
(* The property map: a function from the names present to byte strings     *)

kEarliestTimeBeginCompact == "earliest_time_begin_compact"
kLatestTimeEndCompact == "latest_time_end_compact"

PropertyNames == {kEarliestTimeBeginCompact, kLatestTimeEndCompact}

EmptyProperties == [n \in {} |-> <<>>]

\* std::map::insert: a name already present keeps its value
Insert(props, name, raw) ==
    IF name \in DOMAIN props
    THEN props
    ELSE [n \in DOMAIN props \cup {name} |->
             IF n = name THEN raw ELSE props[n]]

-----------------------------------------------------------------------------
(* State *)

VARIABLES
    ttl_max_scan_cap,             \* ttl_options_.ttl_max_scan_cap
    ttl_gc_ratio,                 \* ttl_options_.ttl_gc_ratio, in percent
    ttl_mandatory_compaction,     \* ttl_options_.ttl_mandatory_compaction
    histogram_,                   \* the samples added to the histogram
    ttl_seconds_slice_window_,
    slice_window_ttl_index_,
    slice_index_,
    total_entries_,
    ttl_entries_,
    min_scan_cap_ttl_seconds_,
    properties,                   \* the map Finish writes into
    phase,                        \* the build: "adding", "aborted", "finished";
                                  \* "loaded" for a table file read from disk
    status,                       \* the Status the last call returned
    log,                          \* the entries added so far, oldest first
    extract_calls,                \* how often ttl_extractor_->Extract was called
    now_time_seconds,             \* Finish: the clock reading
    percentile,                   \* Finish: what histogram_.Percentile returned
    earliest_time_begin_compact,  \* Finish: the first value computed
    latest_time_end_compact,      \* Finish: the second value computed
    read_result,                  \* what GetCompactionTimePoint handed back
    adapter_key,                  \* the adapter's last add: the internal key, what
                                  \* it was built from, the wrapped collector's answer
    adapter_calls,                \* the wrapped collector: how many AddUserKey
                                  \* calls it got, and the arguments of the last
    adapter_status,               \* the Status the adapter's last add returned
    property_read,                \* what GetMergeOperands handed back: the value
                                  \* and *property_present
    collectors,                   \* per building thread, the collector the factory
                                  \* made for it: its members, the adds it got,
                                  \* what its Finish computed
    copy                          \* a CopyFile call: its arguments, its locals,
                                  \* the two files, what it returned

options == <<ttl_max_scan_cap, ttl_gc_ratio, ttl_mandatory_compaction>>
windowVars == <<ttl_seconds_slice_window_, slice_window_ttl_index_,
                slice_index_, min_scan_cap_ttl_seconds_>>
finishVars == <<now_time_seconds, percentile, earliest_time_begin_compact,
                latest_time_end_compact>>
collectorVars == <<options, histogram_, windowVars, total_entries_,
                   ttl_entries_, properties, phase, status, log, extract_calls,
                   finishVars>>
adapterVars == <<adapter_key, adapter_calls, adapter_status>>
otherVars == <<property_read, collectors, copy>>

\* the collector's mutable members as one record
Collector ==
    [total_entries |-> total_entries_,
     ttl_entries |-> ttl_entries_,
     histogram |-> histogram_,
     w |-> [window |-> ttl_seconds_slice_window_,
            index |-> slice_window_ttl_index_,
            slice_index |-> slice_index_,
            min_scan_cap |-> min_scan_cap_ttl_seconds_]]

-----------------------------------------------------------------------------
(* Inputs *)

\* what the extractor hands back in ttl.count(), read as uint64_t
TtlInputs == {1, kFiftyYearSecondsNumber + 1}

ErrorStatuses == {"Corruption", "IOError"}

\* what TtlExtractor::Extract answers for a data-bearing entry
ExtractAnswers ==
    [s : {"OK"}, has_ttl : {TRUE}, ttl : TtlInputs]
    \cup [s : {"OK"}, has_ttl : {FALSE}, ttl : {0}]
    \cup [s : ErrorStatuses, has_ttl : {FALSE}, ttl : {0}]

\* has_ttl and ttl as InternalAdd initialises them; the extractor is not
\* called for the other entries
NotExtracted == [s |-> "OK", has_ttl |-> FALSE, ttl |-> 0]

Entries ==
    {[type |-> t, ext |-> a] :
        t \in {k \in EntryTypes : IsDataBearing(k)}, a \in ExtractAnswers}
    \cup {[type |-> t, ext |-> NotExtracted] :
            t \in {k \in EntryTypes : ~IsDataBearing(k)}}

\* ttl_mandatory_compaction: disabled, two delays, and one so large that now + it
\* wraps for every clock reading but 0
MandatoryInputs == {0, 1, 2, kMaxUint64}

\* ttl_gc_ratio is a double in [0,1], kept as a percentage.  The inputs are
\* exact in binary floating point, so ttl_gc_ratio * total_entries_ is
\* computed without rounding.
GcRatioInputs == {0, 50, 100}

\* env_->NowMicros() / 1000000
NowInputs == {0, 1}

-----------------------------------------------------------------------------
(* TtlIntTblPropCollector::InternalAdd *)

\* variant: the extractor's ttl is used as it comes
KeyTtlUnclamped(ttl) == ttl

\* key_ttl: ttl.count() read as uint64_t and held to fifty years
KeyTtl(ttl) == Min(ttl, kFiftyYearSecondsNumber)

\* variant: the extractor's status is not looked at; a failed extraction is
\* taken for an entry without TTL
InternalAddIgnoringStatus(c, e, cap) ==
    LET c1 == [c EXCEPT !.total_entries = @ + 1]
    IN  IF IsDataBearing(e.type)
        THEN IF e.ext.has_ttl
             THEN LET key_ttl == KeyTtl(e.ext.ttl)
                  IN  [c |-> [c1 EXCEPT
                                !.ttl_entries = @ + 1,
                                !.histogram = Append(@, key_ttl),
                                !.w = AddTtlToSliceWindow(@, key_ttl, cap)],
                       s |-> "OK", extracted |-> TRUE]
             ELSE [c |-> [c1 EXCEPT !.w = ClearSliceWindow(@)],
                   s |-> "OK", extracted |-> TRUE]
        ELSE IF e.type < kEntryOther
             THEN [c |-> [c1 EXCEPT !.w = AddTtlToSliceWindow(@, 0, cap)],
                   s |-> "OK", extracted |-> FALSE]
             ELSE [c |-> c1, s |-> "OK", extracted |-> FALSE]

\* variant: total_entries_ is counted after the extraction, so an add whose
\* extraction fails is not counted
InternalAddCountingLate(c, e, cap) ==
    LET c1 == [c EXCEPT !.total_entries = @ + 1]
    IN  IF IsDataBearing(e.type)
        THEN IF e.ext.s /= "OK"
             THEN [c |-> c, s |-> e.ext.s, extracted |-> TRUE]
             ELSE IF e.ext.has_ttl
                  THEN LET key_ttl == KeyTtl(e.ext.ttl)
                       IN  [c |-> [c1 EXCEPT
                                     !.ttl_entries = @ + 1,
                                     !.histogram = Append(@, key_ttl),
                                     !.w = AddTtlToSliceWindow(@, key_ttl, cap)],
                            s |-> "OK", extracted |-> TRUE]
                  ELSE [c |-> [c1 EXCEPT !.w = ClearSliceWindow(@)],
                        s |-> "OK", extracted |-> TRUE]
        ELSE IF e.type < kEntryOther
             THEN [c |-> [c1 EXCEPT !.w = AddTtlToSliceWindow(@, 0, cap)],
                   s |-> "OK", extracted |-> FALSE]
             ELSE [c |-> c1, s |-> "OK", extracted |-> FALSE]

\* variant: kEntryOther is taken for a tombstone too
InternalAddPushingOther(c, e, cap) ==
    LET c1 == [c EXCEPT !.total_entries = @ + 1]
    IN  IF IsDataBearing(e.type)
        THEN IF e.ext.s /= "OK"
             THEN [c |-> c1, s |-> e.ext.s, extracted |-> TRUE]
             ELSE IF e.ext.has_ttl
                  THEN LET key_ttl == KeyTtl(e.ext.ttl)
                       IN  [c |-> [c1 EXCEPT
                                     !.ttl_entries = @ + 1,
                                     !.histogram = Append(@, key_ttl),
                                     !.w = AddTtlToSliceWindow(@, key_ttl, cap)],
                            s |-> "OK", extracted |-> TRUE]
                  ELSE [c |-> [c1 EXCEPT !.w = ClearSliceWindow(@)],
                        s |-> "OK", extracted |-> TRUE]
        ELSE IF e.type <= kEntryOther
             THEN [c |-> [c1 EXCEPT !.w = AddTtlToSliceWindow(@, 0, cap)],
                   s |-> "OK", extracted |-> FALSE]
             ELSE [c |-> c1, s |-> "OK", extracted |-> FALSE]

\* the collector after the add, the Status returned, and whether
\* ttl_extractor_->Extract was called
InternalAdd(c, e, cap) ==
    LET c1 == [c EXCEPT !.total_entries = @ + 1]
    IN  IF IsDataBearing(e.type)
        THEN IF e.ext.s /= "OK"
             THEN [c |-> c1, s |-> e.ext.s, extracted |-> TRUE]
             ELSE IF e.ext.has_ttl
                  THEN LET key_ttl == KeyTtl(e.ext.ttl)
                       IN  [c |-> [c1 EXCEPT
                                     !.ttl_entries = @ + 1,
                                     !.histogram = Append(@, key_ttl),
                                     !.w = AddTtlToSliceWindow(@, key_ttl, cap)],
                            s |-> "OK", extracted |-> TRUE]
                  ELSE [c |-> [c1 EXCEPT !.w = ClearSliceWindow(@)],
                        s |-> "OK", extracted |-> TRUE]
        ELSE IF e.type < kEntryOther
             THEN [c |-> [c1 EXCEPT !.w = AddTtlToSliceWindow(@, 0, cap)],
                   s |-> "OK", extracted |-> FALSE]
             ELSE [c |-> c1, s |-> "OK", extracted |-> FALSE]

\* what the log keeps of an entry: its tier and the extractor's answer
Tier(entry_type) ==
    IF IsDataBearing(entry_type) THEN "data"
    ELSE IF IsTombstoneLike(entry_type) THEN "tombstone" ELSE "inert"

LogRecord(e) == [tier |-> Tier(e.type), ext |-> e.ext]

\* the build driver: an add that fails aborts the build, and Finish is not
\* called on an aborted build
PhaseAfterAdd(s) == IF s = "OK" THEN "adding" ELSE "aborted"

\* variant: an add whose extraction fails writes an "unknown" earliest time
\* into the property map before returning
AddWritingOnError ==
    /\ phase = "adding"
    /\ Len(log) < MaxEntries
    /\ \E e \in Entries :
         LET r == InternalAdd(Collector, e, ttl_max_scan_cap)
         IN  /\ total_entries_' = r.c.total_entries
             /\ ttl_entries_' = r.c.ttl_entries
             /\ histogram_' = r.c.histogram
             /\ ttl_seconds_slice_window_' = r.c.w.window
             /\ slice_window_ttl_index_' = r.c.w.index
             /\ slice_index_' = r.c.w.slice_index
             /\ min_scan_cap_ttl_seconds_' = r.c.w.min_scan_cap
             /\ status' = r.s
             /\ extract_calls' = extract_calls + (IF r.extracted THEN 1 ELSE 0)
             /\ phase' = PhaseAfterAdd(r.s)
             /\ log' = Append(log, LogRecord(e))
             /\ properties' =
                  IF r.s = "OK" THEN properties
                  ELSE Insert(properties, kEarliestTimeBeginCompact,
                              PutVarint64(<<>>, kMaxUint64))
    /\ UNCHANGED <<options, finishVars, read_result, adapterVars, otherVars>>

Add ==
    /\ phase = "adding"
    /\ Len(log) < MaxEntries
    /\ \E e \in Entries :
         LET r == InternalAdd(Collector, e, ttl_max_scan_cap)
         IN  /\ total_entries_' = r.c.total_entries
             /\ ttl_entries_' = r.c.ttl_entries
             /\ histogram_' = r.c.histogram
             /\ ttl_seconds_slice_window_' = r.c.w.window
             /\ slice_window_ttl_index_' = r.c.w.index
             /\ slice_index_' = r.c.w.slice_index
             /\ min_scan_cap_ttl_seconds_' = r.c.w.min_scan_cap
             /\ status' = r.s
             /\ extract_calls' = extract_calls + (IF r.extracted THEN 1 ELSE 0)
             /\ phase' = PhaseAfterAdd(r.s)
             /\ log' = Append(log, LogRecord(e))
    /\ UNCHANGED <<options, properties, finishVars, read_result, adapterVars,
                   otherVars>>

-----------------------------------------------------------------------------
(* TtlIntTblPropCollector::Finish *)

\* variant: the share of entries with a TTL is not compared with the ratio
RatioReachedWithoutRatio(hist, ttl_entries, total_entries, gc) ==
    hist /= <<>>

\* the condition under which the percentile is taken
RatioReached(hist, ttl_entries, total_entries, gc) ==
    /\ hist /= <<>>
    /\ ttl_entries * 100 >= gc * total_entries

\* histogram_.Percentile: an estimate that lies among the samples
PercentileEstimates(hist) == {hist[i] : i \in DOMAIN hist}

\* variant: a positive mandatory bound replaces the value instead of capping it
EarliestTimeBeginCompactOverwritten(now, reached, pct, mandatory) ==
    LET base == IF reached THEN AddU64(now, pct) ELSE kMaxUint64
    IN  IF mandatory > 0
        THEN AddU64(now, mandatory)
        ELSE base

\* variant: std::max in place of std::min
EarliestTimeBeginCompactMax(now, reached, pct, mandatory) ==
    LET base == IF reached THEN AddU64(now, pct) ELSE kMaxUint64
    IN  IF mandatory > 0
        THEN (IF base > AddU64(now, mandatory) THEN base
              ELSE AddU64(now, mandatory))
        ELSE base

\* earliest_time_begin_compact, pct being static_cast<uint64_t>(Percentile(..))
EarliestTimeBeginCompact(now, reached, pct, mandatory) ==
    LET base == IF reached THEN AddU64(now, pct) ELSE kMaxUint64
    IN  IF mandatory > 0
        THEN Min(base, AddU64(now, mandatory))
        ELSE base

\* variant: the sentinel is not recognised and now is added to it
LatestTimeEndCompactNoSentinel(now, min_scan_cap) ==
    AddU64(min_scan_cap, now)

LatestTimeEndCompact(now, min_scan_cap) ==
    IF min_scan_cap < kMaxUint64
    THEN AddU64(min_scan_cap, now)
    ELSE kMaxUint64

\* the two PutVarint64 and the two inserts
WriteCompactionTimes(props, earliest, latest) ==
    Insert(Insert(props, kEarliestTimeBeginCompact, PutVarint64(<<>>, earliest)),
           kLatestTimeEndCompact, PutVarint64(<<>>, latest))

Finish ==
    /\ phase = "adding"
    /\ \E now \in NowInputs :
         LET reached == RatioReached(histogram_, ttl_entries_, total_entries_,
                                     ttl_gc_ratio)
         IN  \E pct \in (IF reached THEN PercentileEstimates(histogram_) ELSE {0}) :
               LET earliest == EarliestTimeBeginCompact(now, reached, pct,
                                                        ttl_mandatory_compaction)
                   latest == LatestTimeEndCompact(now, min_scan_cap_ttl_seconds_)
               IN  /\ now_time_seconds' = now
                   /\ percentile' = pct
                   /\ earliest_time_begin_compact' = earliest
                   /\ latest_time_end_compact' = latest
                   /\ properties' = WriteCompactionTimes(properties, earliest, latest)
    /\ phase' = "finished"
    /\ status' = "OK"
    /\ UNCHANGED <<options, histogram_, windowVars, total_entries_,
                   ttl_entries_, log, extract_calls, read_result, adapterVars,
                   otherVars>>

-----------------------------------------------------------------------------
(* GetUint64Property and GetCompactionTimePoint *)

\* variant: *property_present keeps the false it is given when the property
\* is not in the map, also when the value decodes
GetUint64PropertyFlagUnset(props, property_name) ==
    IF property_name \notin DOMAIN props
    THEN [val |-> 0, property_present |-> FALSE]
    ELSE LET d == GetVarint64(props[property_name])
         IN  [val |-> IF d.ok THEN d.val ELSE 0, property_present |-> FALSE]

GetUint64Property(props, property_name) ==
    IF property_name \notin DOMAIN props
    THEN [val |-> 0, property_present |-> FALSE]
    ELSE LET d == GetVarint64(props[property_name])
         IN  IF d.ok
             THEN [val |-> d.val, property_present |-> TRUE]
             ELSE [val |-> 0, property_present |-> FALSE]

\* variant: a property that is not present keeps the value the accessor gave
GetCompactionTimePointUnsubstituted(props) ==
    [earliest |-> GetUint64Property(props, kEarliestTimeBeginCompact).val,
     latest |-> GetUint64Property(props, kLatestTimeEndCompact).val]

GetCompactionTimePoint(props) ==
    LET e == GetUint64Property(props, kEarliestTimeBeginCompact)
        l == GetUint64Property(props, kLatestTimeEndCompact)
    IN  [earliest |-> IF e.property_present THEN e.val ELSE kMaxUint64,
         latest |-> IF l.property_present THEN l.val ELSE kMaxUint64]

NotRead == [done |-> FALSE, earliest |-> 0, latest |-> 0]

\* the names of the two counters read through GetUint64Property alone
kDeletedKeys == "deleted_keys"
kMergeOperands == "merge_operands"

NoPropertyRead ==
    [done |-> FALSE, name |-> "", val |-> 0, property_present |-> FALSE]

\* GetDeletedKeys and GetMergeOperands: GetUint64Property under the counter's
\* name; GetDeletedKeys drops *property_present, GetMergeOperands hands it on
ReadProperty ==
    /\ phase = "loaded"
    /\ ~property_read.done
    /\ \E name \in {kDeletedKeys, kMergeOperands} :
         LET r == GetUint64Property(properties, name)
         IN  property_read' = [done |-> TRUE, name |-> name, val |-> r.val,
                               property_present |-> r.property_present]
    /\ UNCHANGED <<collectorVars, read_result, adapterVars, collectors, copy>>

\* the compaction picker reads the two times of a table file: one whose build
\* has finished, or one loaded from disk
Read ==
    /\ phase \in {"finished", "loaded"}
    /\ ~read_result.done
    /\ LET r == GetCompactionTimePoint(properties)
       IN  read_result' = [done |-> TRUE, earliest |-> r.earliest,
                           latest |-> r.latest]
    /\ UNCHANGED <<collectorVars, adapterVars, otherVars>>

-----------------------------------------------------------------------------
(* Internal keys (db/dbformat.h): the user key followed by 8 bytes, the     *)
(* little-endian coding of (sequence << 8) | type                          *)

kTypeDeletion == 0
kTypeValue == 1
kTypeMerge == 2
kTypeLogData == 3
kTypeSingleDeletion == 7
kTypeRangeDeletion == 15
kTypeValueIndex == 17
kTypeMergeIndex == 18

\* the tags ParseInternalKey accepts
IsValueType(t) ==
    t \in {kTypeDeletion, kTypeValue, kTypeMerge, kTypeSingleDeletion,
           kTypeRangeDeletion, kTypeValueIndex, kTypeMergeIndex}

GetEntryType(value_type) ==
    CASE value_type = kTypeValue -> kEntryPut
      [] value_type = kTypeDeletion -> kEntryDelete
      [] value_type = kTypeSingleDeletion -> kEntrySingleDelete
      [] value_type = kTypeMerge -> kEntryMerge
      [] value_type = kTypeRangeDeletion -> kEntryRangeDeletion
      [] value_type = kTypeValueIndex -> kEntryValueIndex
      [] value_type = kTypeMergeIndex -> kEntryMergeIndex
      [] OTHER -> kEntryOther

\* n bytes of v, least significant first
RECURSIVE EncodeFixed(_, _)
EncodeFixed(v, n) ==
    IF n = 0 THEN <<>> ELSE <<v % 256>> \o EncodeFixed(v \div 256, n - 1)

\* the number whose little-endian coding is bytes
RECURSIVE DecodeFixed(_)
DecodeFixed(bytes) ==
    IF bytes = <<>> THEN 0 ELSE Head(bytes) + 256 * DecodeFixed(Tail(bytes))

\* AppendInternalKey: what the writer of a table stores for an entry
PackInternalKey(user_key, sequence, type) ==
    user_key \o <<type>> \o EncodeFixed(sequence, 7)

ParseInternalKey(key) ==
    LET n == Len(key)
    IN  IF n < 8
        THEN [ok |-> FALSE, user_key |-> <<>>, sequence |-> 0, type |-> 0]
        ELSE [ok |-> IsValueType(key[n - 7]),
              user_key |-> SubSeq(key, 1, n - 8),
              sequence |-> DecodeFixed(SubSeq(key, n - 6, n)),
              type |-> key[n - 7]]

-----------------------------------------------------------------------------
(* UserKeyTablePropertiesCollector::InternalAdd *)

\* variant: the key is handed on before the result of the parse is looked at
UserKeyInternalAddUnchecked(key, inner) ==
    LET ikey == ParseInternalKey(key)
    IN  [calls |-> <<[user_key |-> ikey.user_key,
                      type |-> GetEntryType(ikey.type),
                      sequence |-> ikey.sequence]>>,
         s |-> IF ikey.ok THEN inner ELSE "InvalidArgument"]

\* the calls made to collector_->AddUserKey and the status returned, inner
\* being the status the wrapped collector answers with
UserKeyInternalAdd(key, inner) ==
    LET ikey == ParseInternalKey(key)
    IN  IF ~ikey.ok
        THEN [calls |-> <<>>, s |-> "InvalidArgument"]
        ELSE [calls |-> <<[user_key |-> ikey.user_key,
                           type |-> GetEntryType(ikey.type),
                           sequence |-> ikey.sequence]>>,
              s |-> inner]

UserKeys == {<<>>, <<107>>}
Sequences == {0, 1, 300}
ValueTypes == {kTypeDeletion, kTypeValue, kTypeMerge, kTypeSingleDeletion,
               kTypeRangeDeletion, kTypeValueIndex, kTypeMergeIndex}

\* keys too short to hold the 8 bytes, and keys with a tag that is no value type
MalformedKeys ==
    {<<>>, <<107>>, <<1, 0, 0, 0, 0, 0, 0>>}
    \cup {PackInternalKey(uk, 1, t) : uk \in UserKeys, t \in {kTypeLogData, 127}}

\* the keys handed to the adapter, each with what its writer coded in it
InternalKeys ==
    {[key |-> PackInternalKey(uk, n, t), coded |-> TRUE,
      user_key |-> uk, sequence |-> n, type |-> t] :
        uk \in UserKeys, n \in Sequences, t \in ValueTypes}
    \cup {[key |-> k, coded |-> FALSE, user_key |-> <<>>, sequence |-> 0,
           type |-> 0] : k \in MalformedKeys}

\* what the wrapped collector's AddUserKey answers
InnerStatuses == {"OK", "Corruption"}

NoCall == [user_key |-> <<>>, type |-> kEntryOther, sequence |-> 0]

AdapterAdd ==
    /\ adapter_calls.count < MaxAdapterCalls
    /\ \E k \in InternalKeys, inner \in InnerStatuses :
         LET r == UserKeyInternalAdd(k.key, inner)
         IN  /\ adapter_key' = [in |-> k, inner |-> inner]
             /\ adapter_calls' =
                  IF r.calls = <<>>
                  THEN adapter_calls
                  ELSE [count |-> adapter_calls.count + Len(r.calls),
                        last |-> r.calls[Len(r.calls)]]
             /\ adapter_status' = r.s
    /\ UNCHANGED <<collectorVars, read_result, otherVars>>

-----------------------------------------------------------------------------
(* TtlIntTblPropCollectorFactory: one collector per file build, the builds   *)
(* running on threads of their own                                          *)

Threads == {1, 2}

\* the members of a collector as their initialisers leave them
FreshCollector ==
    [total_entries |-> 0,
     ttl_entries |-> 0,
     histogram |-> <<>>,
     w |-> [window |-> <<>>, index |-> <<>>, slice_index |-> 0,
            min_scan_cap |-> kMaxUint64]]

NotCreated ==
    [phase |-> "none",
     ttl_options |-> [ttl_max_scan_cap |-> 0, ttl_gc_ratio |-> 0,
                      ttl_mandatory_compaction |-> 0],
     c |-> FreshCollector,
     adds |-> <<>>,
     status |-> "none",
     now |-> 0, pct |-> 0,
     earliest |-> kMaxUint64, latest |-> kMaxUint64]

\* the factory's ttl_options_ is copied into the collector's own
CreateIntTblPropCollector(t) ==
    /\ collectors[t].phase = "none"
    /\ collectors' =
         [collectors EXCEPT ![t] =
            [NotCreated EXCEPT
               !.phase = "adding",
               !.ttl_options =
                  [ttl_max_scan_cap |-> ttl_max_scan_cap,
                   ttl_gc_ratio |-> ttl_gc_ratio,
                   ttl_mandatory_compaction |-> ttl_mandatory_compaction]]]
    /\ UNCHANGED <<collectorVars, read_result, adapterVars, property_read,
                   copy>>

\* the entries the building threads add: one of each kind of add
FactoryEntries ==
    {[type |-> kEntryPut, ext |-> [s |-> "OK", has_ttl |-> TRUE, ttl |-> 1]],
     [type |-> kEntryPut, ext |-> [s |-> "OK", has_ttl |-> TRUE, ttl |-> 2]],
     [type |-> kEntryPut, ext |-> [s |-> "OK", has_ttl |-> FALSE, ttl |-> 0]],
     [type |-> kEntryPut, ext |-> [s |-> "Corruption", has_ttl |-> FALSE, ttl |-> 0]],
     [type |-> kEntryDelete, ext |-> NotExtracted]}

\* variant: the window tracker's members are static, one set for all
\* collectors
AfterAddSharedWindow(cs, t, e, r) ==
    [u \in DOMAIN cs |->
       IF u = t
       THEN [cs[u] EXCEPT !.c = r.c, !.status = r.s,
                          !.phase = PhaseAfterAdd(r.s), !.adds = Append(@, e)]
       ELSE [cs[u] EXCEPT !.c.w = r.c.w]]

\* an add writes the members of the collector it is called on
AfterAdd(cs, t, e, r) ==
    [cs EXCEPT ![t].c = r.c, ![t].status = r.s,
               ![t].phase = PhaseAfterAdd(r.s), ![t].adds = Append(@, e)]

FactoryAdd(t) ==
    /\ collectors[t].phase = "adding"
    /\ Len(collectors[t].adds) < MaxFactoryEntries
    /\ \E e \in FactoryEntries :
         LET r == InternalAdd(collectors[t].c, e,
                              collectors[t].ttl_options.ttl_max_scan_cap)
         IN  collectors' = AfterAdd(collectors, t, e, r)
    /\ UNCHANGED <<collectorVars, read_result, adapterVars, property_read,
                   copy>>

FactoryFinish(t) ==
    /\ collectors[t].phase = "adding"
    /\ \E now \in NowInputs :
         LET k == collectors[t]
             reached == RatioReached(k.c.histogram, k.c.ttl_entries,
                                     k.c.total_entries, k.ttl_options.ttl_gc_ratio)
         IN  \E pct \in (IF reached THEN PercentileEstimates(k.c.histogram)
                         ELSE {0}) :
               collectors' =
                 [collectors EXCEPT
                    ![t].phase = "finished",
                    ![t].status = "OK",
                    ![t].now = now,
                    ![t].pct = pct,
                    ![t].earliest =
                       EarliestTimeBeginCompact(
                         now, reached, pct,
                         k.ttl_options.ttl_mandatory_compaction),
                    ![t].latest =
                       LatestTimeEndCompact(now, k.c.w.min_scan_cap)]
    /\ UNCHANGED <<collectorVars, read_result, adapterVars, property_read,
                   copy>>

-----------------------------------------------------------------------------
(* CopyFile (util/file_util.cc). The bytes of the source are told apart by   *)
(* their offset: a slice is the range of offsets the reader handed back.    *)

\* a - b in uint64_t
SubU64(a, b) == IF b > a THEN kMaxUint64 - (b - a) + 1 ELSE a - b

EnvStatuses == {"OK", "IOError"}

kFileTooSmall == "Corruption: file too small"

\* SequentialFileReader::Read(n, &slice, buffer) on a file with avail bytes
\* left: an error, or a slice of at most n bytes: as many as there are, half
\* of that, or none
ReadResults(n, avail) ==
    {[s |-> "IOError", len |-> 0]}
    \cup {[s |-> "OK", len |-> k] :
            k \in {Min(n, avail), Min(n, avail) \div 2, 0}}

\* variant: the whole buffer is asked for, whatever is left to copy
BytesToReadWholeBuffer(size) == kBufferSize

\* bytes_to_read = std::min(sizeof(buffer), static_cast<size_t>(size))
BytesToRead(size) == Min(kBufferSize, size)

NotCopying ==
    [pc |-> "idle", requested |-> 0, use_fsync |-> FALSE, source_len |-> 0,
     size |-> 0, pos |-> 0, dest_len |-> 0, in_order |-> TRUE,
     max_chunk |-> 0, reads |-> 0, synced |-> "no", status |-> "none",
     last |-> [call |-> "none", s |-> "OK", len |-> 0]]

Returned(c, call, s, ret) ==
    [c EXCEPT !.pc = "done", !.status = ret,
              !.last = [call |-> call, s |-> s, len |-> 0]]

\* the block that opens the two files and settles size
CopyOpen ==
    /\ copy.pc = "start"
    /\ \E s1, s2, s3 \in EnvStatuses :
         copy' =
           IF s1 /= "OK" THEN Returned(copy, "NewSequentialFile", s1, s1)
           ELSE IF s2 /= "OK" THEN Returned(copy, "NewWritableFile", s2, s2)
           ELSE IF copy.requested = 0
                THEN IF s3 /= "OK" THEN Returned(copy, "GetFileSize", s3, s3)
                     ELSE [copy EXCEPT
                             !.pc = "copying",
                             !.size = copy.source_len,
                             !.last = [call |-> "GetFileSize", s |-> "OK",
                                       len |-> 0]]
                ELSE [copy EXCEPT
                        !.pc = "copying",
                        !.size = copy.requested,
                        !.last = [call |-> "NewWritableFile", s |-> "OK",
                                  len |-> 0]]
    /\ UNCHANGED <<collectorVars, read_result, adapterVars, property_read,
                   collectors>>

\* one pass of the while loop
CopyChunk ==
    /\ copy.pc = "copying"
    /\ copy.size > 0
    /\ \E r \in ReadResults(BytesToRead(copy.size), copy.source_len - copy.pos),
          sa \in EnvStatuses :
         LET c1 == [copy EXCEPT !.reads = @ + 1, !.pos = @ + r.len]
         IN  copy' =
               IF r.s /= "OK"
               THEN [Returned(c1, "Read", r.s, r.s) EXCEPT !.last.len = r.len]
               ELSE IF r.len = 0
                    THEN Returned(c1, "Read", "OK", kFileTooSmall)
               ELSE IF sa /= "OK"
                    THEN [Returned(c1, "Append", sa, sa) EXCEPT !.last.len = r.len]
               ELSE [c1 EXCEPT
                       !.dest_len = @ + r.len,
                       !.in_order = @ /\ copy.pos = copy.dest_len,
                       !.max_chunk = IF r.len > @ THEN r.len ELSE @,
                       !.size = SubU64(@, r.len),
                       !.last = [call |-> "Append", s |-> "OK", len |-> r.len]]
    /\ UNCHANGED <<collectorVars, read_result, adapterVars, property_read,
                   collectors>>

\* return dest_writer->Sync(use_fsync)
CopySync ==
    /\ copy.pc = "copying"
    /\ copy.size = 0
    /\ \E ss \in EnvStatuses :
         copy' = [Returned(copy, "Sync", ss, ss) EXCEPT
                    !.synced = IF ss /= "OK" THEN "no"
                               ELSE IF copy.use_fsync THEN "fsync" ELSE "sync"]
    /\ UNCHANGED <<collectorVars, read_result, adapterVars, property_read,
                   collectors>>

-----------------------------------------------------------------------------
(* Specifications *)

vars == <<collectorVars, read_result, adapterVars, otherVars>>

\* a collector as its constructor leaves it
InitCollector(caps, ratios, mandatories) ==
    /\ ttl_max_scan_cap \in caps
    /\ ttl_gc_ratio \in ratios
    /\ ttl_mandatory_compaction \in mandatories
    /\ histogram_ = <<>>
    /\ ttl_seconds_slice_window_ = <<>>
    /\ slice_window_ttl_index_ = <<>>
    /\ slice_index_ = 0
    /\ total_entries_ = 0
    /\ ttl_entries_ = 0
    /\ min_scan_cap_ttl_seconds_ = kMaxUint64
    /\ status = "none"
    /\ log = <<>>
    /\ extract_calls = 0
    /\ now_time_seconds = 0
    /\ percentile = 0
    /\ earliest_time_begin_compact = kMaxUint64
    /\ latest_time_end_compact = kMaxUint64

InitAdapter ==
    /\ adapter_key = [in |-> [key |-> <<>>, coded |-> FALSE, user_key |-> <<>>,
                              sequence |-> 0, type |-> 0],
                      inner |-> "none"]
    /\ adapter_calls = [count |-> 0, last |-> NoCall]
    /\ adapter_status = "none"

InitOthers ==
    /\ property_read = NoPropertyRead
    /\ collectors = [t \in Threads |-> NotCreated]
    /\ copy = NotCopying

\* one file build, from the collector's construction to Finish
Init ==
    /\ InitCollector(0 .. MaxScanCap, GcRatioInputs, MandatoryInputs)
    /\ phase = "adding"
    /\ properties = EmptyProperties
    /\ read_result = NotRead
    /\ InitAdapter
    /\ InitOthers

Next == Add \/ Finish

Spec == Init /\ [][Next]_vars

\* the byte strings a property of a table file on disk may hold: codings of
\* values, a coding followed by more bytes, and strings that end before the
\* coding does
StoredValues == {0, 300, kFiftyYearSecondsNumber, kMaxUint64}
StoredStrings ==
    {EncodeVarint64(v) : v \in StoredValues}
    \cup {<<5, 9>>, <<128, 0>>, <<>>, <<128>>, <<255, 255>>}

LoadedProperties ==
    UNION {[names -> StoredStrings] : names \in SUBSET PropertyNames}

\* a file build whose properties are read back after Finish, or a table file
\* whose properties were loaded from disk
InitRead ==
    /\ InitCollector({0, 1}, {0, 100}, {0, 2})
    /\ \/ /\ phase = "adding"
          /\ properties = EmptyProperties
       \/ /\ phase = "loaded"
          /\ properties \in LoadedProperties
    /\ read_result = NotRead
    /\ InitAdapter
    /\ InitOthers

NextRead == Add \/ Finish \/ Read

SpecRead == InitRead /\ [][NextRead]_vars

\* adds through the user-key adapter
InitAdapterOnly ==
    /\ InitCollector({0}, {0}, {0})
    /\ phase = "adding"
    /\ properties = EmptyProperties
    /\ read_result = NotRead
    /\ InitAdapter
    /\ InitOthers

NextAdapter == AdapterAdd

SpecAdapter == InitAdapterOnly /\ [][NextAdapter]_vars

\* two file builds on two threads, their collectors made by one factory
InitFactory ==
    /\ InitCollector({1, 2}, {50}, {0, 2})
    /\ phase = "adding"
    /\ properties = EmptyProperties
    /\ read_result = NotRead
    /\ InitAdapter
    /\ InitOthers

NextFactory ==
    \E t \in Threads :
        CreateIntTblPropCollector(t) \/ FactoryAdd(t) \/ FactoryFinish(t)

SpecFactory == InitFactory /\ [][NextFactory]_vars

\* the sizes of the source and the sizes asked for: nothing, less than a
\* buffer, a buffer, and more than one and than two buffers
SourceSizes == {0, 1, 100, kBufferSize, kBufferSize + 1, 2 * kBufferSize + 1}
RequestedSizes == SourceSizes \cup {3 * kBufferSize}

\* one call of CopyFile
InitCopy ==
    /\ InitCollector({0}, {0}, {0})
    /\ phase = "adding"
    /\ properties = EmptyProperties
    /\ read_result = NotRead
    /\ InitAdapter
    /\ property_read = NoPropertyRead
    /\ collectors = [t \in Threads |-> NotCreated]
    /\ \E requested \in RequestedSizes, source_len \in SourceSizes,
          use_fsync \in BOOLEAN :
         copy = [NotCopying EXCEPT !.pc = "start", !.requested = requested,
                                   !.source_len = source_len,
                                   !.use_fsync = use_fsync]

NextCopy == CopyOpen \/ CopyChunk \/ CopySync

\* the thread that called CopyFile keeps running
SpecCopy == InitCopy /\ [][NextCopy]_vars /\ WF_vars(NextCopy)

\* the values a counter of a table file may hold: the ends of the range, and
\* both sides of each length of the coding
CounterValues ==
    {0, 1, 127, 128, 300, 16383, 16384, 2097151, 2097152, 268435455,
     268435456, kFiftyYearSecondsNumber, kMaxUint64}

CounterProperties ==
    UNION {[names -> {PutVarint64(<<>>, v) : v \in CounterValues}] :
             names \in SUBSET {kDeletedKeys, kMergeOperands}}

\* a table file loaded from disk whose counters are read
InitProperty ==
    /\ InitCollector({0}, {0}, {0})
    /\ phase = "loaded"
    /\ properties \in CounterProperties
    /\ read_result = NotRead
    /\ InitAdapter
    /\ InitOthers

NextProperty == ReadProperty

SpecProperty == InitProperty /\ [][NextProperty]_vars

-----------------------------------------------------------------------------
(* What the log says, computed without the collector's state *)

IsTtlPush(r) == r.tier = "data" /\ r.ext.s = "OK" /\ r.ext.has_ttl
IsNoTtl(r) == r.tier = "data" /\ r.ext.s = "OK" /\ ~r.ext.has_ttl
IsExtractError(r) == r.tier = "data" /\ r.ext.s /= "OK"
IsTombstone(r) == r.tier = "tombstone"
IsInert(r) == r.tier = "inert"
IsWindowPush(r) == IsTtlPush(r) \/ IsTombstone(r)

\* the sample a window push carries
Sample(r) ==
    IF IsTombstone(r) THEN 0
    ELSE IF r.ext.ttl > kFiftyYearSecondsNumber THEN kFiftyYearSecondsNumber
    ELSE r.ext.ttl

MinOf(S) == CHOOSE x \in S : \A y \in S : x <= y
MaxOf(S) == CHOOSE x \in S : \A y \in S : x >= y

\* the runs of c consecutive elements of a sequence, by their first index
Runs(n, c) == 1 .. (n - c + 1)
RunMin(vals, i, c) == MinOf({vals[j] : j \in i .. (i + c - 1)})
RunMax(vals, i, c) == MaxOf({vals[j] : j \in i .. (i + c - 1)})

AllTtlPushes == \A i \in DOMAIN log : IsTtlPush(log[i])
LogSamples == [i \in DOMAIN log |-> Sample(log[i])]

\* the entries that reach the window tracker, in order: pushes and resets
RECURSIVE WindowEvents(_)
WindowEvents(l) ==
    IF l = <<>> THEN <<>>
    ELSE IF IsWindowPush(Head(l)) \/ IsNoTtl(Head(l))
         THEN <<Head(l)>> \o WindowEvents(Tail(l))
         ELSE WindowEvents(Tail(l))

\* some c consecutive window events are all pushes
HasFullRun(l, c) ==
    LET ev == WindowEvents(l)
    IN  \E i \in Runs(Len(ev), c) :
           \A j \in i .. (i + c - 1) : IsWindowPush(ev[j])

LastRecord == log[Len(log)]
AddedOne == Len(log') = Len(log) + 1

-----------------------------------------------------------------------------
(* C1 *)

-----------------------------------------------------------------------------
(* C2 *)

NoTtlStep == AddedOne /\ IsNoTtl(log'[Len(log')])

\* the pushes made since the last no-TTL data entry
RECURSIVE PushesSinceReset(_)
PushesSinceReset(l) ==
    IF l = <<>> \/ IsNoTtl(l[Len(l)]) THEN 0
    ELSE (IF IsWindowPush(l[Len(l)]) THEN 1 ELSE 0)
         + PushesSinceReset(SubSeq(l, 1, Len(l) - 1))

HasNoTtl == \E i \in DOMAIN log : IsNoTtl(log[i])

-----------------------------------------------------------------------------
(* C3, C4, C5 *)

RatioReachedNow ==
    histogram_ /= <<>> /\ ttl_entries_ * 100 >= ttl_gc_ratio * total_entries_

\* base of C3: now + percentile when the ratio is reached, else the sentinel
Base == IF RatioReachedNow
        THEN AddU64(now_time_seconds, percentile)
        ELSE kMaxUint64

\* C3: after finish, earliest_begin is base when the mandatory bound is 0 and
\* the smaller of base and now + mandatory when it is positive (the sums being
\* 64-bit sums).
C3_EarliestBegin ==
    phase = "finished" =>
        /\ ttl_mandatory_compaction = 0 => earliest_time_begin_compact = Base
        /\ ttl_mandatory_compaction > 0 =>
             /\ earliest_time_begin_compact =
                  Min(Base, AddU64(now_time_seconds, ttl_mandatory_compaction))
             /\ earliest_time_begin_compact <=
                  AddU64(now_time_seconds, ttl_mandatory_compaction)

\* the ratio is reached, the percentile lies beyond the mandatory bound, and
\* the bound has been taken
C3_Witness ==
    /\ phase = "finished"
    /\ RatioReachedNow
    /\ ttl_mandatory_compaction = 2
    /\ percentile = kFiftyYearSecondsNumber
    /\ now_time_seconds = 1
    /\ earliest_time_begin_compact = 3

\* C4 as stated: whatever the options, when at finish the histogram is empty
\* or ttl_entries < gc_ratio * total_entries, earliest_begin is the sentinel.
C4_SentinelWhenRatioNotReached ==
    (phase = "finished" /\ ~RatioReachedNow)
    => earliest_time_begin_compact = kMaxUint64

\* C4 amended: in that case earliest_begin is the sentinel when the mandatory
\* bound is 0, and now + mandatory (a 64-bit sum) when it is positive.
C4_SentinelUnlessMandatory ==
    (phase = "finished" /\ ~RatioReachedNow)
    => earliest_time_begin_compact =
         IF ttl_mandatory_compaction = 0
         THEN kMaxUint64
         ELSE AddU64(now_time_seconds, ttl_mandatory_compaction)

\* the ratio is not reached although the histogram has samples, and the
\* mandatory bound alone decides earliest_begin
C4_Witness ==
    /\ phase = "finished"
    /\ histogram_ /= <<>>
    /\ ~RatioReachedNow
    /\ ttl_mandatory_compaction = 1
    /\ now_time_seconds = 1
    /\ earliest_time_begin_compact = 2

\* earliest_begin of this finish, had the mandatory bound been m
EarliestWith(m) ==
    EarliestTimeBeginCompact(now_time_seconds, RatioReachedNow, percentile, m)

\* C5 as stated: for the same stream, clock and other options, any two
\* mandatory bounds m1 < m2, 0 included, give earliest_begin(m1) <=
\* earliest_begin(m2).
C5_MonotoneFromZero ==
    phase = "finished" =>
        \A m1, m2 \in MandatoryInputs :
            m1 < m2 => EarliestWith(m1) <= EarliestWith(m2)

\* C5 amended: the same for two positive bounds 0 < m1 < m2 whose sum with now
\* stays within 64 bits; the bound 0 disables the clamp and gives a result no
\* positive bound exceeds.
C5_MonotoneOverPositive ==
    phase = "finished" =>
        /\ \A m1, m2 \in MandatoryInputs :
              (0 < m1 /\ m1 < m2 /\ m2 <= kMaxUint64 - now_time_seconds)
              => EarliestWith(m1) <= EarliestWith(m2)
        /\ \A m \in MandatoryInputs : EarliestWith(m) <= EarliestWith(0)

\* two positive bounds give different results, and the result without a bound
\* is larger than both
C5_Witness ==
    /\ phase = "finished"
    /\ ttl_mandatory_compaction = 1
    /\ RatioReachedNow
    /\ EarliestWith(1) < EarliestWith(2)
    /\ EarliestWith(2) < EarliestWith(0)

-----------------------------------------------------------------------------
(* C6 *)

\* C6: after finish, latest_end is the sentinel exactly when no scan_cap
\* consecutive window pushes (inert entries ignored) went uninterrupted by a
\* data entry without TTL, always so when scan_cap = 0; otherwise it is now +
\* the tracker's running value.
C6_LatestEnd ==
    phase = "finished" =>
        LET filled == ttl_max_scan_cap > 0 /\ HasFullRun(log, ttl_max_scan_cap)
        IN  /\ (latest_time_end_compact = kMaxUint64) <=> ~filled
            /\ ttl_max_scan_cap = 0 => latest_time_end_compact = kMaxUint64
            /\ filled => latest_time_end_compact =
                           now_time_seconds + min_scan_cap_ttl_seconds_

\* a window of two filled, with a reset and an inert entry in the stream, and
\* latest_end was computed from it
C6_Witness ==
    /\ phase = "finished"
    /\ ttl_max_scan_cap = 2
    /\ HasNoTtl
    /\ \E i \in DOMAIN log : IsInert(log[i])
    /\ now_time_seconds = 1
    /\ latest_time_end_compact = 2

\* a stream with as many pushes as the window holds, interrupted by a reset,
\* leaves latest_end unknown
C6_WitnessUnfilled ==
    /\ phase = "finished"
    /\ ttl_max_scan_cap = 2
    /\ Len(SelectSeq(log, IsWindowPush)) >= 2
    /\ latest_time_end_compact = kMaxUint64

-----------------------------------------------------------------------------
(* C7 *)

\* C7: before finish the property map holds neither of the two properties,
\* whether the adds succeeded or one failed and aborted the build; finish
\* writes both.
C7_WrittenOnlyAtFinish ==
    /\ phase /= "finished" => DOMAIN properties \cap PropertyNames = {}
    /\ phase = "finished" => PropertyNames \subseteq DOMAIN properties

\* a build that aborted on a failed add after successful ones
C7_Witness ==
    /\ phase = "aborted"
    /\ Len(log) >= 3
    /\ ttl_entries_ >= 1
    /\ DOMAIN properties = {}

-----------------------------------------------------------------------------
(* C8 *)

ExtractErrorStep == AddedOne /\ IsExtractError(log'[Len(log')])

\* C8: an add whose extractor call fails returns the extractor's status and
\* changes nothing but total_entries_, which it increments.
C8_ErrorLeavesStateAlone ==
    [][ExtractErrorStep =>
         /\ status' = log'[Len(log')].ext.s
         /\ total_entries_' = total_entries_ + 1
         /\ ttl_entries_' = ttl_entries_
         /\ histogram_' = histogram_
         /\ UNCHANGED windowVars]_vars

\* an add has failed on a collector whose window had filled
C8_Witness ==
    /\ phase = "aborted"
    /\ status = "IOError"
    /\ IsExtractError(LastRecord)
    /\ ttl_entries_ >= 1
    /\ slice_index_ >= 2
    /\ min_scan_cap_ttl_seconds_ < kMaxUint64
    /\ total_entries_ = Len(log)

-----------------------------------------------------------------------------
(* C9 *)

\* C9: an add through the adapter with a key that does not parse returns
\* InvalidArgument without calling the wrapped collector; with a key that
\* parses it calls the wrapped collector once, with the user key, the entry
\* type derived from the tag and the sequence number, and returns its status.
C9_AdapterAdd ==
    [][adapterVars' /= adapterVars =>
         LET k == adapter_key'.in
         IN  IF k.coded
             THEN /\ adapter_calls' =
                       [count |-> adapter_calls.count + 1,
                        last |-> [user_key |-> k.user_key,
                                  type |-> GetEntryType(k.type),
                                  sequence |-> k.sequence]]
                  /\ adapter_status' = adapter_key'.inner
             ELSE /\ adapter_calls' = adapter_calls
                  /\ adapter_status' = "InvalidArgument"]_vars

\* one add was handed on and answered, and the next, of a key long enough but
\* with a tag that is no value type, was refused
C9_Witness ==
    /\ adapter_calls = [count |-> 1,
                        last |-> [user_key |-> <<107>>, type |-> kEntryMergeIndex,
                                  sequence |-> 300]]
    /\ adapter_status = "InvalidArgument"
    /\ Len(adapter_key.in.key) >= 8

\* an add was handed on and the wrapped collector's failure came back
C9_WitnessInnerFailure ==
    /\ adapter_calls.count = 2
    /\ adapter_calls.last.type = kEntrySingleDelete
    /\ adapter_status = "Corruption"

-----------------------------------------------------------------------------
(* C10 *)

\* the value of the first k groups of 7 bits, least significant first
RECURSIVE Groups(_, _, _)
Groups(raw, j, k) ==
    IF j > k THEN 0 ELSE (raw[j] % 128) + 128 * Groups(raw, j + 1, k)

\* the indices at which a coding ends: the first byte without the top bit
Terminators(raw) ==
    {k \in DOMAIN raw : raw[k] < 128 /\ \A j \in 1 .. (k - 1) : raw[j] >= 128}

\* what a reader must get for a name: the value coded if the property is
\* present and well-formed, the sentinel otherwise
Expected(props, name) ==
    IF name \in DOMAIN props /\ Terminators(props[name]) /= {}
    THEN Groups(props[name], 1, CHOOSE k \in Terminators(props[name]) : TRUE)
    ELSE kMaxUint64

\* C10: GetCompactionTimePoint gives, for each of the two names, the value
\* coded when the property is present and well-formed and the sentinel when it
\* is absent or malformed; on the map Finish wrote it gives the two values
\* Finish computed, and on a map with neither name it gives (MAX, MAX).
C10_GetCompactionTimePoint ==
    read_result.done =>
        /\ read_result.earliest = Expected(properties, kEarliestTimeBeginCompact)
        /\ read_result.latest = Expected(properties, kLatestTimeEndCompact)
        /\ phase = "finished" =>
             /\ read_result.earliest = earliest_time_begin_compact
             /\ read_result.latest = latest_time_end_compact
        /\ DOMAIN properties \cap PropertyNames = {} =>
             /\ read_result.earliest = kMaxUint64
             /\ read_result.latest = kMaxUint64

\* the two times of a finished build were read back, both known and the
\* second coded on several bytes
C10_Witness ==
    /\ read_result.done
    /\ phase = "finished"
    /\ read_result.earliest = 3
    /\ read_result.latest = kFiftyYearSecondsNumber + 1

\* a loaded map with a malformed first property and a well-formed second one
C10_WitnessMalformed ==
    /\ read_result.done
    /\ phase = "loaded"
    /\ DOMAIN properties = PropertyNames
    /\ properties[kEarliestTimeBeginCompact] = <<255, 255>>
    /\ read_result.earliest = kMaxUint64
    /\ read_result.latest = 300

\* a loaded map with neither property
C10_WitnessAbsent ==
    /\ read_result.done
    /\ phase = "loaded"
    /\ DOMAIN properties = {}
    /\ read_result.earliest = kMaxUint64
    /\ read_result.latest = kMaxUint64

-----------------------------------------------------------------------------
(* C11 *)

\* what ReadProperty handed back when the counter holds the coding of v
RoundTrips ==
    \A v \in CounterValues :
        (property_read.name \in DOMAIN properties
         /\ properties[property_read.name] = PutVarint64(<<>>, v))
        => (property_read.val = v /\ property_read.property_present)

\* C11 as claimed: a counter held as the coding of v is read back as v with
\* the presence flag set, and a counter the map does not hold is read as the
\* largest 64-bit value with the presence flag clear
C11_AbsentIsSentinel ==
    property_read.done
    => /\ RoundTrips
       /\ property_read.name \notin DOMAIN properties
          => (property_read.val = kMaxUint64 /\ ~property_read.property_present)

\* C11: a counter held as the coding of v is read back as v with the presence
\* flag set, and a counter the map does not hold is read as 0 with the
\* presence flag clear
C11_AbsentIsZero ==
    property_read.done
    => /\ RoundTrips
       /\ property_read.name \notin DOMAIN properties
          => (property_read.val = 0 /\ ~property_read.property_present)

\* the largest value, coded in five bytes, has been read back
C11_Witness ==
    /\ property_read.done
    /\ property_read.name \in DOMAIN properties
    /\ Len(properties[property_read.name]) = 5
    /\ property_read.val = kMaxUint64
    /\ property_read.property_present

\* a counter the map does not hold has been read, beside one it holds
C11_WitnessAbsent ==
    /\ property_read.done
    /\ property_read.name \notin DOMAIN properties
    /\ DOMAIN properties /= {}
    /\ ~property_read.property_present


-----------------------------------------------------------------------------
(* C12 *)

\* an entry whose TTL the extractor reports above fifty years
OverCeiling(e) ==
    /\ IsDataBearing(e.type)
    /\ e.ext.s = "OK"
    /\ e.ext.has_ttl
    /\ e.ext.ttl > kFiftyYearSecondsNumber

AtCeiling(e) == [e EXCEPT !.ext.ttl = kFiftyYearSecondsNumber]

\* C12: no sample in the histogram or in the window is above fifty years, and
\* an add of an entry whose TTL is above fifty years leaves the collector in
\* the state the same add with a TTL of exactly fifty years leaves it in, the
\* state from which Finish computes both of its values
C12_SamplesHeldToCeiling ==
    /\ \A i \in DOMAIN histogram_ : histogram_[i] <= kFiftyYearSecondsNumber
    /\ \A i \in DOMAIN ttl_seconds_slice_window_ :
          ttl_seconds_slice_window_[i] <= kFiftyYearSecondsNumber
    /\ min_scan_cap_ttl_seconds_ < kMaxUint64
          => min_scan_cap_ttl_seconds_ <= kFiftyYearSecondsNumber
    /\ phase = "adding"
          => \A e \in Entries :
                OverCeiling(e)
                => InternalAdd(Collector, e, ttl_max_scan_cap)
                     = InternalAdd(Collector, AtCeiling(e), ttl_max_scan_cap)

\* an entry with a TTL above fifty years was added after a smaller one; fifty
\* years is in the histogram, in the window and is the tracker's value
C12_Witness ==
    /\ Len(log) >= 2
    /\ IsTtlPush(LastRecord)
    /\ LastRecord.ext.ttl > kFiftyYearSecondsNumber
    /\ histogram_[Len(histogram_)] = kFiftyYearSecondsNumber
    /\ histogram_[1] < kFiftyYearSecondsNumber
    /\ \E i \in DOMAIN ttl_seconds_slice_window_ :
          ttl_seconds_slice_window_[i] = kFiftyYearSecondsNumber
    /\ min_scan_cap_ttl_seconds_ = kFiftyYearSecondsNumber


-----------------------------------------------------------------------------
(* C13 *)

\* the adds so far in which the extractor reported a TTL
TtlCalls == {i \in DOMAIN log : IsTtlPush(log[i])}

\* C13: total_entries_ is the number of adds made so far, the ones whose
\* extraction failed included, ttl_entries_ is the number of those adds in
\* which a data-bearing entry was reported to carry a TTL, and ttl_entries_
\* is never above total_entries_
C13_EntryCounts ==
    /\ total_entries_ = Len(log)
    /\ ttl_entries_ = Cardinality(TtlCalls)
    /\ ttl_entries_ <= total_entries_

\* an add failed after adds of every other kind: with a TTL, without one, a
\* tombstone
C13_Witness ==
    /\ Len(log) = 4
    /\ IsExtractError(LastRecord)
    /\ \E i, j, k \in 1 .. 3 :
          IsTtlPush(log[i]) /\ IsNoTtl(log[j]) /\ IsTombstone(log[k])
    /\ total_entries_ = 4
    /\ ttl_entries_ = 1

\* every add so far carried a TTL: the two counters are equal
C13_WitnessEqual ==
    /\ Len(log) = 3
    /\ AllTtlPushes
    /\ ttl_entries_ = 3
    /\ total_entries_ = 3


-----------------------------------------------------------------------------
(* C14 *)

\* the members of a collector that got the adds l and no other call
RECURSIVE RunAlone(_, _, _)
RunAlone(c, l, cap) ==
    IF l = <<>> THEN c
    ELSE RunAlone(InternalAdd(c, Head(l), cap).c, Tail(l), cap)

\* the collector of thread t holds what its own adds, run alone under the
\* factory's options, leave, and its Finish computed its two values from that
AsAlone(t) ==
    LET k == collectors[t]
        alone == RunAlone(FreshCollector, k.adds, ttl_max_scan_cap)
        reached == RatioReached(alone.histogram, alone.ttl_entries,
                                alone.total_entries, ttl_gc_ratio)
    IN  /\ k.c = alone
        /\ k.phase = "finished"
             => /\ k.earliest =
                     EarliestTimeBeginCompact(k.now, reached, k.pct,
                                              ttl_mandatory_compaction)
                /\ k.latest = LatestTimeEndCompact(k.now, alone.w.min_scan_cap)

\* C14: whatever the order in which the adds and the Finish of two collectors
\* of one factory are interleaved, each collector's counters, histogram and
\* window state, and the two values its Finish computes, are the ones its own
\* calls produce when run alone with the same clock readings and extractor
\* answers
C14_CollectorsShareNothing ==
    \A t \in Threads : collectors[t].phase /= "none" => AsAlone(t)

\* both builds have finished after different adds, with different results
C14_Witness ==
    /\ \A t \in Threads :
          collectors[t].phase = "finished" /\ Len(collectors[t].adds) >= 2
    /\ collectors[1].adds /= collectors[2].adds
    /\ collectors[1].latest < collectors[2].latest
    /\ collectors[2].latest < kMaxUint64
    /\ collectors[1].c.w /= collectors[2].c.w

\* one build is still adding while the other has been aborted
C14_WitnessAborted ==
    /\ collectors[1].phase = "aborted"
    /\ collectors[2].phase = "adding"
    /\ collectors[2].c.ttl_entries = 2


-----------------------------------------------------------------------------
(* C15 *)

\* the samples pushed since the last no-TTL data entry, oldest first: the
\* sample pushed at position p is element p + 1
RECURSIVE SegmentSamples(_)
SegmentSamples(l) ==
    IF l = <<>> \/ IsNoTtl(l[Len(l)]) THEN <<>>
    ELSE LET rest == SegmentSamples(SubSeq(l, 1, Len(l) - 1))
         IN  IF IsWindowPush(l[Len(l)])
             THEN Append(rest, Sample(l[Len(l)]))
             ELSE rest

\* the samples of the current window: the last scan_cap pushes, or all of
\* them while the buffer is filling
CurrentWindow ==
    LET seg == SegmentSamples(log)
        n == Len(seg)
    IN  {seg[i] : i \in (IF n > ttl_max_scan_cap
                          THEN n - ttl_max_scan_cap + 1 ELSE 1) .. n}

Pushed == ttl_max_scan_cap > 0 /\ SegmentSamples(log) /= <<>>

\* the sample the buffer holds for the i-th position of the deque
Stored(i) ==
    At(ttl_seconds_slice_window_, slice_window_ttl_index_[i] % ttl_max_scan_cap)

PositionsIncrease ==
    \A i, j \in DOMAIN slice_window_ttl_index_ :
        i < j => slice_window_ttl_index_[i] < slice_window_ttl_index_[j]

-----------------------------------------------------------------------------
(* C16 *)

TombstoneStep == AddedOne /\ IsTombstone(log'[Len(log')])
InertStep == AddedOne /\ IsInert(log'[Len(log')])

NotInert(r) == ~IsInert(r)

\* the window tracker after the pushes and resets of the records l
RECURSIVE WindowAfter(_, _)
WindowAfter(l, cap) ==
    IF l = <<>> THEN FreshCollector.w
    ELSE LET w == WindowAfter(SubSeq(l, 1, Len(l) - 1), cap)
             r == l[Len(l)]
         IN  IF IsWindowPush(r) THEN AddTtlToSliceWindow(w, Sample(r), cap)
             ELSE IF IsNoTtl(r) THEN ClearSliceWindow(w)
             ELSE w

\* C16: an add of a tombstone-like entry puts 0 into the window tracker at
\* the next position (when scan_cap > 0), leaves ttl_entries_ and the
\* histogram alone and does not call the extractor; an add of an inert entry
\* changes nothing but total_entries_; and the window tracker, hence the
\* latest end time Finish computes, is what the stream with its inert entries
\* taken out leaves
C16_TombstoneAndInertFrames ==
    /\ [][TombstoneStep =>
            /\ status' = "OK"
            /\ total_entries_' = total_entries_ + 1
            /\ ttl_entries_' = ttl_entries_
            /\ histogram_' = histogram_
            /\ extract_calls' = extract_calls
            /\ IF ttl_max_scan_cap > 0
               THEN /\ slice_index_' = slice_index_ + 1
                    /\ Last(slice_window_ttl_index_') = slice_index_
                    /\ At(ttl_seconds_slice_window_',
                          slice_index_ % ttl_max_scan_cap) = 0
               ELSE UNCHANGED windowVars]_vars
    /\ [][InertStep =>
            /\ status' = "OK"
            /\ total_entries_' = total_entries_ + 1
            /\ UNCHANGED <<ttl_entries_, histogram_, windowVars, extract_calls,
                           properties, finishVars>>]_vars
    /\ [](LET w == WindowAfter(SelectSeq(log, NotInert), ttl_max_scan_cap)
          IN  /\ Collector.w = w
              /\ phase = "finished"
                   => latest_time_end_compact =
                        LatestTimeEndCompact(now_time_seconds, w.min_scan_cap))

\* Finish has run on a stream in which an inert entry lies between a push of
\* a TTL and the tombstone's push of 0 that fills the window
C16_Witness ==
    /\ phase = "finished"
    /\ ttl_max_scan_cap = 2
    /\ Len(log) = 3
    /\ IsTtlPush(log[1])
    /\ IsInert(log[2])
    /\ IsTombstone(log[3])
    /\ extract_calls = 1
    /\ total_entries_ = 3
    /\ ttl_seconds_slice_window_[2] = 0
    /\ latest_time_end_compact < kMaxUint64


-----------------------------------------------------------------------------
(* C17 *)

\* the first indices of the runs of c consecutive window events that are all
\* pushes: the runs that lie within one reset-free segment
FullRuns(ev, c) ==
    {i \in Runs(Len(ev), c) : \A j \in i .. (i + c - 1) : IsWindowPush(ev[j])}

\* the least, over those runs, of the run's largest sample
MinOfRunMaxima(l, c) ==
    LET ev == WindowEvents(l)
        runs == FullRuns(ev, c)
    IN  IF runs = {} THEN kMaxUint64
        ELSE MinOf({MaxOf({Sample(ev[j]) : j \in i .. (i + c - 1)}) : i \in runs})

\* C17: with scan_cap C >= 1, min_scan_cap_ttl_seconds_ is the least, over
\* the runs of C consecutive window pushes that lie within one reset-free
\* segment of the stream so far (earlier segments included), of the run's
\* largest sample, the sentinel when there is no such run; and no add, a
\* resetting one included, increases it
C17_MinOverSegments ==
    /\ [](ttl_max_scan_cap >= 1
            => min_scan_cap_ttl_seconds_ = MinOfRunMaxima(log, ttl_max_scan_cap))
    /\ [][min_scan_cap_ttl_seconds_' <= min_scan_cap_ttl_seconds_]_vars

\* a window of two filled in a first segment, a reset came, and one push
\* followed: the value is the first segment's, not the sentinel
C17_Witness ==
    /\ ttl_max_scan_cap = 2
    /\ Len(log) = 4
    /\ IsTtlPush(log[1]) /\ IsTombstone(log[2])
    /\ IsNoTtl(log[3])
    /\ IsTtlPush(log[4])
    /\ Sample(log[1]) = 1
    /\ Sample(log[4]) = kFiftyYearSecondsNumber
    /\ min_scan_cap_ttl_seconds_ = 1

\* two runs with different largest samples: the smaller of the two is kept
C17_WitnessTwoRuns ==
    /\ ttl_max_scan_cap = 2
    /\ Len(log) = 3
    /\ \A i \in 1 .. 3 : IsTtlPush(log[i])
    /\ Sample(log[1]) = 1 /\ Sample(log[2]) = 1
    /\ Sample(log[3]) = kFiftyYearSecondsNumber
    /\ min_scan_cap_ttl_seconds_ = 1


-----------------------------------------------------------------------------
(* C18 *)

\* the number of bytes the call is to copy
ToCopy == IF copy.requested = 0 THEN copy.source_len ELSE copy.requested

\* C18: a call of CopyFile returns; when it returns OK, exactly the bytes
\* asked for (the whole source when 0 is asked for) were read from the start
\* of the source in slices of at most 4096 bytes, appended to the destination
\* in that order, and synced; a read that succeeds with an empty slice while
\* bytes are left to copy makes it return Corruption "file too small"; a
\* failed open, size query, read, append or sync is what it returns, at once;
\* and the count of bytes left to copy never grows, so it never wraps below 0
C18_CopyFile ==
    /\ <>(copy.pc = "done")
    /\ []((copy.pc = "done" /\ copy.status = "OK")
            => /\ copy.pos = ToCopy
               /\ copy.dest_len = ToCopy
               /\ copy.in_order
               /\ copy.max_chunk <= kBufferSize
               /\ copy.synced = (IF copy.use_fsync THEN "fsync" ELSE "sync")
               /\ copy.last.call = "Sync")
    /\ []((copy.last.call = "Read" /\ copy.last.s = "OK")
            => /\ copy.pc = "done"
               /\ copy.status = kFileTooSmall
               /\ copy.dest_len < ToCopy)
    /\ [](copy.last.s /= "OK"
            => /\ copy.pc = "done"
               /\ copy.status = copy.last.s
               /\ copy.synced = "no")
    /\ [](copy.pc = "copying"
            => /\ copy.size = ToCopy - copy.dest_len
               /\ copy.pos = copy.dest_len)
    /\ [][copy.pc = "copying" => copy'.size <= copy.size]_vars
    /\ [][copy.pc = "done" => UNCHANGED copy]_vars

\* two buffers and a byte were copied, one read coming back short, and synced
C18_Witness ==
    /\ copy.pc = "done"
    /\ copy.status = "OK"
    /\ copy.requested = 0
    /\ copy.source_len = 2 * kBufferSize + 1
    /\ copy.dest_len = 2 * kBufferSize + 1
    /\ copy.max_chunk = kBufferSize
    /\ copy.reads > 3
    /\ copy.synced = "fsync"

\* more was asked for than the source holds: the source was copied whole and
\* the next read came back empty
C18_WitnessTooSmall ==
    /\ copy.pc = "done"
    /\ copy.status = kFileTooSmall
    /\ copy.requested > copy.source_len
    /\ copy.source_len > kBufferSize
    /\ copy.dest_len = copy.source_len

\* an append failed after a buffer had been written
C18_WitnessAppendFailed ==
    /\ copy.pc = "done"
    /\ copy.status = "IOError"
    /\ copy.last.call = "Append"
    /\ copy.dest_len = kBufferSize


-----------------------------------------------------------------------------
(* C19 *)

\* C19: with scan_cap C > 0 the buffer holds min(slice_index_, C) samples in
\* every reachable state, so whenever the next push finds slice_index_ >= C
\* the buffer holds exactly C samples, as the assert of the sliding branch
\* demands, also after resets
C19_BufferLength ==
    ttl_max_scan_cap > 0
    => /\ Len(ttl_seconds_slice_window_) = Min(slice_index_, ttl_max_scan_cap)
       /\ slice_index_ >= ttl_max_scan_cap
            => Len(ttl_seconds_slice_window_) = ttl_max_scan_cap

\* the window filled again after a reset: the next push takes the sliding
\* branch
C19_Witness ==
    /\ ttl_max_scan_cap = 2
    /\ phase = "adding"
    /\ Len(log) = 4
    /\ IsWindowPush(log[1])
    /\ IsNoTtl(log[2])
    /\ slice_index_ = 2
    /\ Len(ttl_seconds_slice_window_) = 2

\* the window has slid: more pushes than the buffer holds
C19_WitnessSlid ==
    /\ ttl_max_scan_cap = 2
    /\ slice_index_ = 4
    /\ Len(ttl_seconds_slice_window_) = 2

-----------------------------------------------------------------------------
(* C20 *)

PushStep == AddedOne /\ IsWindowPush(log'[Len(log')])

\* C20: with scan_cap C > 0, every position p in the deque is below
\* slice_index_ and among the last C positions, the buffer slot p mod C holds
\* the sample that was pushed at position p, and the deque is not empty once
\* a push has been made
C20_DequePositions ==
    /\ [](ttl_max_scan_cap > 0
            => LET seg == SegmentSamples(log)
               IN  /\ slice_index_ = Len(seg)
                   /\ \A i \in DOMAIN slice_window_ttl_index_ :
                         LET p == slice_window_ttl_index_[i]
                         IN  /\ p >= 0
                             /\ p < slice_index_
                             /\ p + ttl_max_scan_cap >= slice_index_
                             /\ p % ttl_max_scan_cap
                                  < Len(ttl_seconds_slice_window_)
                             /\ At(ttl_seconds_slice_window_,
                                   p % ttl_max_scan_cap) = seg[p + 1]
                   /\ seg /= <<>> => slice_window_ttl_index_ /= <<>>)
    /\ [][(PushStep /\ ttl_max_scan_cap > 0)
            => /\ slice_window_ttl_index_' /= <<>>
               /\ Last(slice_window_ttl_index_') = slice_index_]_vars

\* the window of two has slid and the deque holds both of its positions
C20_Witness ==
    /\ ttl_max_scan_cap = 2
    /\ slice_index_ = 3
    /\ slice_window_ttl_index_ = <<1, 2>>
    /\ At(ttl_seconds_slice_window_, 1) > At(ttl_seconds_slice_window_, 0)

=============================================================================
